---- MODULE Spec2Model ----
\* Model of BitsField<T> (src/src/game_of_life/bitsfield.rs): a bit-packed
\* array of 1..8-bit elements stored in a Vec of unsigned words.
\*
\* A word of type T is modelled as the set of its set bit positions
\* (a subset of 0..W-1, bit 0 the least significant), so that u8..u128 are
\* all representable: & is \cap, | is \cup, ! is the complement in 0..W-1,
\* << and >> translate the positions and drop what leaves the word.
\*
\* Rust integer overflow is build dependent: with overflow checks (the dev
\* and test profiles) `a - b` with a < b panics, without them (release) it
\* wraps.  The build is a nondeterministic choice made in Init.
EXTENDS Integers, Naturals, Sequences, FiniteSets, TLC

VARIABLES
    overflow_checks,   \* the build panics on integer overflow (dev, test) or wraps (release)
    T_bits,            \* size_of::<T>()*8 of the word type T the program instantiates
    pc,                \* "none": no BitsField yet; "live"; "panicked": a call panicked
    bits_per_element,  \* BitsField.bits_per_element
    element_size,      \* BitsField.element_size
    elements,          \* BitsField.elements, a sequence of words
    call,              \* the last call made, with the arguments of a constructor
    result,            \* how it ended: "ok", an Err, or "panic"
    output,            \* the raw word a successful get handed to from_type
    cleared,           \* clear has been called on the array
    sets               \* number of set calls made so far

vars == <<overflow_checks, T_bits, pc, bits_per_element, element_size,
          elements, call, result, output, cleared, sets>>

-----------------------------------------------------------------------------
\* Bounds of the model.

\* word types of the calling program: u8 .. u(2^MaxWordExp)
MaxWordExp == 3
\* largest bits_per_element argument handed to new / default
MaxWidthArg == 9
\* largest size argument handed to new by the calling program
MaxCap == 6
\* largest size argument handed to new when only construction is explored
MaxSize == 16
\* payloads 0..MaxRaw are handed to set (to_type() of the codec), see RawValues
MaxRaw == 1
\* get / set are called with index 0 .. len() + IndexSlack
IndexSlack == 1
\* number of set calls made on one array
MaxSets == 1

\* impl BitFieldRepresentation for u8, u16, u32, u64, u128
MinWordExp == 3
TopWordExp == 7

Pow2(k) == 2 ^ k

AllWordWidths == {Pow2(e) : e \in MinWordExp .. TopWordExp}

WordWidths == {W \in AllWordWidths : W <= Pow2(MaxWordExp)}

-----------------------------------------------------------------------------
\* Word arithmetic of T (std::ops on the unsigned primitives).

\* the bit pattern of the u8 n as a word
BitsOf(n) == {b \in 0..7 : (n \div Pow2(b)) % 2 = 1}

\* T::from(n), n a u8; the code uses the literals 0 and 1
From(n) == IF n = 0 THEN {} ELSE IF n = 1 THEN {0} ELSE BitsOf(n)

BitAnd(a, b) == a \cap b

BitOr(a, b) == a \cup b

Not(a, W) == (0 .. (W - 1)) \ a

\* a << k on a W-bit word; k < W (a larger amount is an overflow, see ShiftAmount)
Shl(a, k, W) == {b + k : b \in {x \in a : x + k < W}}

\* a >> k on a W-bit word; k < W
Shr(a, k, W) == {b - k : b \in {x \in a : x >= k}}

\* the amount a shift by `k as u8` uses in a build without overflow checks:
\* the primitive shifts mask the amount with W - 1
ShiftAmount(k, W) == k % W

\* `(a - b) as u8` on usize in a build without overflow checks: the
\* difference wraps modulo 2^64 and the cast keeps the low 8 bits
SubAsU8(a, b) == (a - b) % 256

\* `a - b` on usize overflows
SubOverflows(a, b) == a < b


-----------------------------------------------------------------------------
\* BitsField<T>

\* the Err(&str) results, named as the specification names them
InvalidWidth == "InvalidWidth"
IndexOutOfBounds == "IndexOutOfBounds"

\* vec![T::from(0); n]
ZeroWords(n) == [k \in 1..n |-> From(0)]

\* a faulty AllocWords: the quotient truncated instead of rounded up
AllocWords_truncating(bpe, size, W) == (size * bpe) \div W

\* the length of the Vec that new allocates:
\* (size as f64 * bits_per_element as f64 / (size_of::<T>()*8) as f64).ceil() as usize
\* (the f64 quotient by a power of two is exact for the sizes modelled)
AllocWords(bpe, size, W) == (size * bpe + W - 1) \div W

\* a faulty new: the range 1..8 taken as exclusive, as the error message
\* "bits_per_element must be less than 8" reads
new_below_8(bpe, size, W) ==
    IF bpe \in 1..7
    THEN [ok |-> TRUE, bits_per_element |-> bpe, element_size |-> W,
          elements |-> ZeroWords((size * bpe + W - 1) \div W)]
    ELSE [ok |-> FALSE, err |-> InvalidWidth]

\* BitsField::new: the Result it returns
new(bpe, size, W) ==
    IF bpe = 0 THEN [ok |-> FALSE, err |-> InvalidWidth]
    ELSE IF bpe \in 1..8
         THEN [ok |-> TRUE, bits_per_element |-> bpe, element_size |-> W,
               elements |-> ZeroWords(AllocWords(bpe, size, W))]
         ELSE [ok |-> FALSE, err |-> InvalidWidth]

\* BitsField::default: the argument is not used
default(bpe, W) ==
    [ok |-> TRUE, bits_per_element |-> 1, element_size |-> W, elements |-> <<>>]

\* a faulty clear: the words zeroed, the Vec not emptied
clear_zeroing(elems) == ZeroWords(Len(elems))

\* BitsField::clear: the Vec after the call
clear(elems) == <<>>

\* BitsField::len
len(elems, bpe, W) == (Len(elems) * W) \div bpe

\* BitsField::is_empty
is_empty(elems) == Len(elems) = 0

\* BitsField::convert_index; element_index is 0-based as in the code
convert_index(elems, bpe, W, index) ==
    IF index >= len(elems, bpe, W)
    THEN [ok |-> FALSE, err |-> IndexOutOfBounds]
    ELSE [ok |-> TRUE,
          element_index |-> (index * bpe) \div W,
          bit_index |-> (index * bpe) % W]

\* the mask loops: for i in 0..n { mask = mask | (T::from(1) << (start + i) as u8) }
Mask(start, n, W) == UNION {Shl(From(1), start + i, W) : i \in 0 .. (n - 1)}

\* the condition of the overlapping branch of get and set
Overlaps(bit_index, bpe, W) == (W - bit_index) < bpe

\* the raw word get hands to Output::from_type, overlapping branch (lines 84-95)
get_overlap(cur, next, bit_index, bpe, W) ==
    LET left_index == W - bit_index
        right_index == bpe - left_index
        current_mask == Mask(bit_index, left_index, W)
        next_mask == Mask(0, right_index, W)
    IN  BitOr(Shl(BitAnd(cur, current_mask), right_index, W),
              Shr(BitAnd(next, next_mask), W - right_index, W))

\* the raw word get hands to Output::from_type, single word branch (lines 100-104)
get_single(cur, bit_index, bpe, W) ==
    BitAnd(cur, Mask(bit_index, bpe, W))

\* BitsField::get: the Result, with the raw word in place of the decoded value
get(elems, bpe, W, index) ==
    LET loc == convert_index(elems, bpe, W, index)
    IN  IF ~loc.ok THEN [ok |-> FALSE, err |-> loc.err]
        ELSE IF Overlaps(loc.bit_index, bpe, W)
             THEN [ok |-> TRUE,
                   raw |-> get_overlap(elems[loc.element_index + 1],
                                       elems[loc.element_index + 2],
                                       loc.bit_index, bpe, W)]
             ELSE [ok |-> TRUE,
                   raw |-> get_single(elems[loc.element_index + 1],
                                      loc.bit_index, bpe, W)]

\* line 131 and line 141 subtract on usize: with overflow checks the
\* subtraction panics when it underflows
set_panics(bit_index, bpe, W, checks) ==
    /\ checks
    /\ IF Overlaps(bit_index, bpe, W)
       THEN SubOverflows(bit_index, W - bit_index)
       ELSE SubOverflows(bit_index, bpe)

\* the new value of elements[element_index], overlapping branch (line 131)
set_overlap_current(cur, value, bit_index, bpe, W) ==
    LET left_index == W - bit_index
        right_index == bpe - left_index
        current_mask == Mask(bit_index, left_index, W)
        amount == ShiftAmount(SubAsU8(bit_index, left_index), W)
    IN  BitOr(BitAnd(cur, Not(current_mask, W)),
              BitAnd(Shl(Shr(value, right_index, W), amount, W), current_mask))

\* the new value of elements[element_index + 1], overlapping branch (line 132)
set_overlap_next(next, value, bit_index, bpe, W) ==
    LET left_index == W - bit_index
        right_index == bpe - left_index
        next_mask == Mask(0, right_index, W)
    IN  BitOr(BitAnd(next, Not(next_mask, W)),
              BitAnd(Shl(value, W - right_index, W), next_mask))

\* a faulty single word store: the old word is not kept outside the mask
set_single_clobbering(cur, value, bit_index, bpe, W) ==
    LET mask == Mask(bit_index, bpe, W)
        amount == ShiftAmount(SubAsU8(bit_index, bpe), W)
    IN  BitAnd(Shl(value, amount, W), mask)

\* the new value of elements[element_index], single word branch (lines 137-141)
set_single(cur, value, bit_index, bpe, W) ==
    LET mask == Mask(bit_index, bpe, W)
        amount == ShiftAmount(SubAsU8(bit_index, bpe), W)
    IN  BitOr(BitAnd(cur, Not(mask, W)),
              BitAnd(Shl(value, amount, W), mask))

\* BitsField::set: the outcome and the Vec after the call
set(elems, bpe, W, index, value, checks) ==
    LET loc == convert_index(elems, bpe, W, index)
    IN  IF ~loc.ok THEN [status |-> loc.err, elements |-> elems]
        ELSE IF set_panics(loc.bit_index, bpe, W, checks)
             THEN [status |-> "panic", elements |-> elems]
        ELSE IF Overlaps(loc.bit_index, bpe, W)
             THEN [status |-> "ok",
                   elements |->
                     [elems EXCEPT
                        ![loc.element_index + 1] =
                            set_overlap_current(@, value, loc.bit_index, bpe, W),
                        ![loc.element_index + 2] =
                            set_overlap_next(@, value, loc.bit_index, bpe, W)]]
             ELSE [status |-> "ok",
                   elements |->
                     [elems EXCEPT
                        ![loc.element_index + 1] =
                            set_single(@, value, loc.bit_index, bpe, W)]]


-----------------------------------------------------------------------------
\* The program: a caller that constructs one BitsField<T> and calls it.

Call(o, w, n) == [op |-> o, width |-> w, size |-> n]

\* the raw words to_type() returns in the calls modelled: a payload in the
\* low bits, or the same payload in the bits right above the element width
\* (bits the codec contract leaves open and set masks)
RawValues ==
    {BitsOf(n) : n \in 0 .. MaxRaw}
    \cup {Shl(BitsOf(n), bits_per_element, element_size) : n \in 0 .. MaxRaw}

\* len() of the array in the current state
Length == len(elements, bits_per_element, element_size)

\* the indices get and set are called with
Indices == 0 .. (Length + IndexSlack)

InitWith(widths) ==
    /\ overflow_checks \in BOOLEAN
    /\ T_bits \in widths
    /\ pc = "none"
    /\ bits_per_element = 0
    /\ element_size = 0
    /\ elements = <<>>
    /\ call = Call("none", 0, 0)
    /\ result = "none"
    /\ output = {}
    /\ cleared = FALSE
    /\ sets = 0

Init == InitWith(WordWidths)

InitNew == InitWith(AllWordWidths)

Constructed(r) ==
    /\ pc' = "live"
    /\ bits_per_element' = r.bits_per_element
    /\ element_size' = r.element_size
    /\ elements' = r.elements
    /\ result' = "ok"

NewWith(w, n) ==
    LET r == new(w, n, T_bits)
    IN  /\ pc = "none"
        /\ call' = Call("new", w, n)
        /\ IF r.ok
           THEN Constructed(r)
           ELSE /\ result' = r.err
                /\ UNCHANGED <<pc, bits_per_element, element_size, elements>>
        /\ UNCHANGED <<overflow_checks, T_bits, output, cleared, sets>>

New == \E w \in 0 .. MaxWidthArg, n \in 0 .. MaxCap : NewWith(w, n)

NewSized == \E w \in 0 .. MaxWidthArg, n \in 0 .. MaxSize : NewWith(w, n)

Default ==
    /\ pc = "none"
    /\ \E w \in 0 .. MaxWidthArg :
         /\ call' = Call("default", w, 0)
         /\ Constructed(default(w, T_bits))
    /\ UNCHANGED <<overflow_checks, T_bits, output, cleared, sets>>

Clear ==
    /\ pc = "live"
    /\ elements' = clear(elements)
    /\ call' = Call("clear", 0, 0)
    /\ result' = "ok"
    /\ output' = {}
    /\ cleared' = TRUE
    /\ UNCHANGED <<overflow_checks, T_bits, pc, bits_per_element, element_size, sets>>

Get ==
    /\ pc = "live"
    /\ \E i \in Indices :
         LET r == get(elements, bits_per_element, element_size, i)
         IN  /\ result' = IF r.ok THEN "ok" ELSE r.err
             /\ output' = IF r.ok THEN r.raw ELSE {}
    /\ call' = Call("get", 0, 0)
    /\ UNCHANGED <<overflow_checks, T_bits, pc, bits_per_element, element_size,
                   elements, cleared, sets>>

Set ==
    /\ pc = "live"
    /\ sets < MaxSets
    /\ \E i \in Indices, v \in RawValues :
         LET r == set(elements, bits_per_element, element_size, i, v, overflow_checks)
         IN  /\ result' = r.status
             /\ elements' = r.elements
             /\ pc' = IF r.status = "panic" THEN "panicked" ELSE pc
    /\ call' = Call("set", 0, 0)
    /\ output' = {}
    /\ sets' = sets + 1
    /\ UNCHANGED <<overflow_checks, T_bits, bits_per_element, element_size, cleared>>

Next == New \/ Default \/ Clear \/ Get \/ Set

Spec == Init /\ [][Next]_vars

\* the constructors alone, over every word type and up to MaxSize elements
NextNew == NewSized \/ Default \/ Clear

SpecNew == InitNew /\ [][NextNew]_vars

-----------------------------------------------------------------------------
\* Vocabulary of the claims.

ValidIndices == 0 .. (Length - 1)

\* every raw pattern that fits the element width: v < 2^bits_per_element
Patterns == SUBSET (0 .. (bits_per_element - 1))

\* the low n bits of a word
Low(v, n) == v \cap (0 .. (n - 1))

\* get and set on the array of the current state
GetAt(elems, i) == get(elems, bits_per_element, element_size, i)

SetAt(i, v) == set(elements, bits_per_element, element_size, i, v, overflow_checks)

Ok(raw) == [ok |-> TRUE, raw |-> raw]

\* what get returns at every valid index of a Vec
Reads(elems) == [j \in ValidIndices |-> GetAt(elems, j)]

\* (word_index, bit_offset) of a valid index, as section 3 of the specification gives it
WordIndex(i) == (i * bits_per_element) \div element_size

BitOffset(i) == (i * bits_per_element) % element_size

CrossWord(i) == element_size - BitOffset(i) < bits_per_element

\* the storage as one bit string: bit b of word k (0-based) is position k*W + b
Flat(elems) ==
    UNION {{(k - 1) * element_size + b : b \in elems[k]} : k \in 1 .. Len(elems)}

\* the positions of element i in that bit string: [bit_offset, bit_offset + w)
\* of its word, running on into the low bits of the next word
Span(i) == (i * bits_per_element) .. (i * bits_per_element + bits_per_element - 1)

\* the element's bits shifted down to the low end: (word >> bit_offset) mod 2^w
\* in one word, (left part << right_len) | right part across two
AlignedRaw(elems, i) ==
    LET cur == elems[WordIndex(i) + 1]
        left_len == element_size - BitOffset(i)
        right_len == bits_per_element - left_len
    IN  IF ~CrossWord(i)
        THEN Low(Shr(cur, BitOffset(i), element_size), bits_per_element)
        ELSE BitOr(Shl(Shr(cur, BitOffset(i), element_size), right_len, element_size),
                   Low(elems[WordIndex(i) + 2], right_len))

-----------------------------------------------------------------------------
\* Claims.

\* C1 (as stated): for every valid index i and every raw value v < 2^w,
\* set(i, v) returns Ok and a get(i) right after it hands from_type the raw
\* pattern v.
C1_RoundTrip ==
    pc = "live" =>
        \A i \in ValidIndices, v \in Patterns :
            LET r == SetAt(i, v)
            IN  /\ r.status = "ok"
                /\ GetAt(r.elements, i) = Ok(v)

\* C2: in every reachable state of the array, set at a valid index i with any
\* raw word (bits above the element width included) leaves what get returns
\* at every other valid index j as it was.
C2_NonInterference ==
    pc = "live" =>
        LET before == Reads(elements)
        IN  \A i \in ValidIndices, v \in RawValues :
              LET after == SetAt(i, v).elements
              IN  \A j \in ValidIndices \ {i} : GetAt(after, j) = before[j]

\* C2 witness: a set has stored something, and a further set at a cross-word
\* index i changes a word that also holds a non-zero element j.
C2_Witness ==
    /\ pc = "live"
    /\ call.op = "set"
    /\ result = "ok"
    /\ \E i \in ValidIndices, j \in ValidIndices, v \in RawValues :
         /\ j # i
         /\ CrossWord(i)
         /\ WordIndex(j) \in {WordIndex(i), WordIndex(i) + 1}
         /\ GetAt(elements, j).raw # {}
         /\ SetAt(i, v).status = "ok"
         /\ SetAt(i, v).elements # elements

\* C3 (as stated): get and set at index >= len() return the IndexOutOfBounds
\* error, and at every index < len() they complete successfully, without an
\* error and without an arithmetic fault.
C3_Bounds ==
    pc = "live" =>
        \A i \in Indices :
            IF i >= Length
            THEN /\ GetAt(elements, i) = [ok |-> FALSE, err |-> IndexOutOfBounds]
                 /\ \A v \in RawValues : SetAt(i, v).status = IndexOutOfBounds
            ELSE /\ GetAt(elements, i).ok
                 /\ \A v \in RawValues : SetAt(i, v).status = "ok"

\* C4 (as stated): every call set(i, v) either returns Ok having written the
\* element's whole span (the span then holds what the same set stores into
\* zeroed storage, nothing of the old content), or returns an error with the
\* storage exactly as it was.
C4_NoPartialFailure ==
    pc = "live" =>
        \A i \in Indices, v \in RawValues :
            LET r == SetAt(i, v)
                fresh == set(ZeroWords(Len(elements)), bits_per_element, element_size,
                             i, v, overflow_checks)
            IN  \/ /\ r.status = "ok"
                   /\ Len(r.elements) = Len(elements)
                   /\ Flat(r.elements) \cap Span(i) = Flat(fresh.elements) \cap Span(i)
                \/ /\ r.status = IndexOutOfBounds
                   /\ r.elements = elements

\* C5: new(w, n) fails with the invalid-width error when w = 0 and when
\* w > 8, and returns an array of element width w for every w in 1..8,
\* whatever the size n and the word type.
C5_ConstructionValidation ==
    call.op = "new" =>
        IF call.width \in 1 .. 8
        THEN /\ result = "ok"
             /\ pc = "live"
             /\ bits_per_element = call.width
             /\ element_size = T_bits
        ELSE /\ result = InvalidWidth
             /\ pc = "none"

\* C5 witness: new(9, n) over u128 has just failed.
C5_Witness ==
    /\ call.op = "new"
    /\ call.width = 9
    /\ T_bits = 128
    /\ result = InvalidWidth

\* C6: a successful new(w, n) over W-bit words allocates exactly
\* ceil(n*w/W) words (the least k with k*W >= n*w), all zero, so that
\* len() = floor(words*W/w) >= n; for W = 8, w = 1, n = 16 that is 2 words,
\* len() = 16 and is_empty() = false.
C6_CapacitySizing ==
    (call.op = "new" /\ result = "ok") =>
        /\ Len(elements) * T_bits >= call.size * call.width
        /\ Len(elements) > 0 => (Len(elements) - 1) * T_bits < call.size * call.width
        /\ \A k \in 1 .. Len(elements) : elements[k] = {}
        /\ Length * call.width <= Len(elements) * T_bits
        /\ (Length + 1) * call.width > Len(elements) * T_bits
        /\ Length >= call.size
        /\ (T_bits = 8 /\ call.width = 1 /\ call.size = 16) =>
               (Len(elements) = 2 /\ Length = 16 /\ ~is_empty(elements))

\* C6 witness: BitsField::<u8>::new(1, 16) has returned 2 words, len() = 16.
C6_Witness ==
    /\ call = Call("new", 1, 16)
    /\ T_bits = 8
    /\ result = "ok"
    /\ Len(elements) = 2
    /\ Length = 16
    /\ ~is_empty(elements)

\* C7: clear leaves the array empty with len() = 0 and the element width it
\* had, and from then on every call keeps it so: each get and set fails with
\* IndexOutOfBounds and the storage never grows again.
C7_ClearSemantics ==
    [][ /\ call'.op = "clear" =>
            /\ cleared'
            /\ is_empty(elements')
            /\ len(elements', bits_per_element', element_size') = 0
            /\ bits_per_element' = bits_per_element
        /\ cleared =>
            /\ cleared'
            /\ is_empty(elements')
            /\ len(elements', bits_per_element', element_size') = 0
            /\ bits_per_element' = bits_per_element
            /\ call'.op \in {"get", "set"} => result' = IndexOutOfBounds
      ]_vars

\* C7 witness: after clear on an array of width > 1, a set has failed with
\* IndexOutOfBounds and the array is still empty, its width kept.
C7_Witness ==
    /\ cleared
    /\ call.op = "set"
    /\ result = IndexOutOfBounds
    /\ is_empty(elements)
    /\ bits_per_element > 1

\* C8 (as stated): the array behaves as a sequence of elements: a freshly
\* constructed array reads the zero pattern at every valid index, and each
\* successful set(i, v) makes get(i) yield v and leaves every other index
\* reading what it read before.
C8_SequenceOfElements ==
    pc = "live" =>
        /\ call.op = "new" => \A j \in ValidIndices : GetAt(elements, j) = Ok({})
        /\ \A i \in ValidIndices, v \in Patterns :
             LET r == SetAt(i, v)
             IN  r.status = "ok" =>
                   Reads(r.elements) = [Reads(elements) EXCEPT ![i] = Ok(v)]

\* C9 (as stated): for an element that straddles two words, set with any raw
\* pattern p < 2^w followed by get returns p, and every bit of the two words
\* outside the element's bit ranges keeps the value it had.
C9_CrossWord ==
    pc = "live" =>
        \A i \in {k \in ValidIndices : CrossWord(k)}, p \in Patterns :
            LET r == SetAt(i, p)
            IN  /\ r.status = "ok"
                /\ GetAt(r.elements, i) = Ok(p)
                /\ Flat(r.elements) \ Span(i) = Flat(elements) \ Span(i)

\* C10 (as stated): for every storage content and every valid index, the raw
\* pattern get hands to from_type is the element's bits shifted down to the
\* low end: it has no bit at or above position w and equals
\* (word >> bit_offset) mod 2^w, or (left part << right_len) | right part.
C10_GetAligned ==
    pc = "live" =>
        \A i \in ValidIndices :
            LET r == GetAt(elements, i)
            IN  /\ r.ok
                /\ r.raw \subseteq 0 .. (bits_per_element - 1)
                /\ r.raw = AlignedRaw(elements, i)

=============================================================================
